---------------------------- MODULE Spec2Model ----------------------------
(***************************************************************************)
(* HouseExpenseMS: the household expense tracker's summary engine,         *)
(* category aggregator, settlement planner and handover manager.           *)
(*                                                                         *)
(* Money.  The code works on JavaScript numbers.  Here an amount is a      *)
(* whole number of cents, and every derived value (paid, share, net) is an *)
(* exact rational kept as a whole number of units, Scale units to the      *)
(* cent, so that amount / n is exact for every list length n that occurs.  *)
(* toFixed(2) is modelled by what it does: rounding to whole cents.        *)
(***************************************************************************)
EXTENDS Integers, Sequences, FiniteSets, TLC

VARIABLES
    \* the pure functions, applied to drawn inputs
    list,           \* the list handed to the pure functions
    person,         \* the viewpoint handed to computeCategoryTotalsFromList
    summary,        \* result of computeSummaryFromList(list)
    transactions,   \* result of computeSettlement(summary)
    totals,         \* result of computeCategoryTotalsFromList(list, person)
    pc,             \* position of the calculation pipeline
    \* the application
    dbExpenses,     \* the store's expenses table, rows in insertion order
    dbHandovers,    \* the store's handovers table, rows in insertion order
    nextId,         \* the id the store gives the next expense row
    expenses,       \* in-memory active expenses
    handovers,      \* in-memory past handovers
    archivedExpensesByHandover,  \* in-memory archived expenses by handover id
    confirmBtn,     \* the confirm-handover button: hidden flag and dataset
    tasks,          \* the async handlers awaiting the store
    alert,          \* the alert() on screen, "" for none
    \* the forms
    checked,        \* the checked boxes of each responsible-checkbox container
    currentEditIndex,  \* index of the expense in the edit modal, 0 for null
    modalShown,     \* whether the edit modal is on screen
    page            \* the section on screen

calcVars == <<list, person, summary, transactions, totals, pc>>
uiVars == <<checked, currentEditIndex, modalShown, page>>
appVars == <<dbExpenses, dbHandovers, nextId, expenses, handovers,
             archivedExpensesByHandover, confirmBtn, tasks, alert, uiVars>>
vars == <<calcVars, appVars>>

----------------------------------------------------------------------------
(* Fixed configuration *)

members == <<"Asim", "Appy", "Chire", "Priyash", "Pratikshya", "Ashmi">>

categories ==
    <<"Groceries", "Bills/Utilities", "Entertainment", "Dining Out",
      "Transport", "Miscellaneous">>

Range(s) == {s[i] : i \in 1..Len(s)}

Roster == Range(members)

\* units per cent: divisible by every divisor 1..6 the division meets
Scale == 2 * 2 * 3 * 5

\* the settlement threshold 0.01, in cents
Epsilon == 1

----------------------------------------------------------------------------
(* JavaScript helpers *)

\* Array.prototype.includes
Includes(arr, x) == \E i \in 1..Len(arr) : arr[i] = x

\* obj[field] of a record that may lack the field; <<>> stands for the
\* array the code defaults to
HasField(obj, f) == f \in DOMAIN obj

\* parseFloat(exp.amount), in units
parseAmount(exp) == exp.amount * Scale

\* toFixed2 cutting the digits off instead of rounding
toFixed2_Truncate(x) == x \div Scale

\* Number.prototype.toFixed(2) of a non-negative value: the nearest whole
\* number of cents, the larger one on a tie
toFixed2(x) == (x + (Scale \div 2)) \div Scale

----------------------------------------------------------------------------
(* Summary engine *)

\* exp.responsible || exp.beneficiaries || []   (an array, even an empty
\* one, is truthy)
RespField(exp) ==
    IF HasField(exp, "responsible") THEN exp.responsible
    ELSE IF HasField(exp, "beneficiaries") THEN exp.beneficiaries
    ELSE <<>>

\* respList: the full roster when 'All' is included, else the array as is
RespList(exp) ==
    LET resp == RespField(exp)
    IN  IF Includes(resp, "All") THEN members ELSE resp

\* amount / (respList.length || 1)
PerHeadShare(exp) ==
    LET n == Len(RespList(exp))
    IN  parseAmount(exp) \div (IF n = 0 THEN 1 ELSE n)

\* AddPaid with `=` written for `+=`
AddPaid_Assign(s, exp) ==
    IF exp.payer \in DOMAIN s
    THEN [s EXCEPT ![exp.payer].paid = parseAmount(exp)]
    ELSE s

\* if (summary[exp.payer]) summary[exp.payer].paid += amount
AddPaid(s, exp) ==
    IF exp.payer \in DOMAIN s
    THEN [s EXCEPT ![exp.payer].paid = @ + parseAmount(exp)]
    ELSE s

\* respList.forEach(name => { if (summary[name]) summary[name].share += share })
RECURSIVE AddShares(_, _, _)
AddShares(s, names, share) ==
    IF names = <<>> THEN s
    ELSE LET name == Head(names)
             s1 == IF name \in DOMAIN s
                   THEN [s EXCEPT ![name].share = @ + share]
                   ELSE s
         IN  AddShares(s1, Tail(names), share)

EmptySummary == [m \in Roster |-> [paid |-> 0, share |-> 0]]

RECURSIVE SummaryFold(_, _)
SummaryFold(s, l) ==
    IF l = <<>> THEN s
    ELSE LET exp == Head(l)
         IN  SummaryFold(AddShares(AddPaid(s, exp), RespList(exp), PerHeadShare(exp)),
                         Tail(l))

computeSummaryFromList(l) == SummaryFold(EmptySummary, l)

Net(s, m) == s[m].share - s[m].paid

----------------------------------------------------------------------------
(* Category aggregator *)

EmptyTotals == [c \in Range(categories) |-> 0]

\* AddCategory adding the per-head share for every viewpoint
AddCategory_ShareOnly(t, exp, who) ==
    IF who = "All" \/ Includes(RespList(exp), who)
    THEN [t EXCEPT ![exp.category] = @ + PerHeadShare(exp)]
    ELSE t

\* one iteration of the forEach of computeCategoryTotalsFromList
AddCategory(t, exp, who) ==
    IF who = "All"
    THEN [t EXCEPT ![exp.category] = @ + parseAmount(exp)]
    ELSE IF Includes(RespList(exp), who)
         THEN [t EXCEPT ![exp.category] = @ + PerHeadShare(exp)]
         ELSE t

RECURSIVE CategoryFold(_, _, _)
CategoryFold(t, l, who) ==
    IF l = <<>> THEN t
    ELSE CategoryFold(AddCategory(t, Head(l), who), Tail(l), who)

computeCategoryTotalsFromList(l, who) == CategoryFold(EmptyTotals, l, who)

----------------------------------------------------------------------------
(* Settlement planner *)

\* a threshold that counts a net of exactly 0.01 as a debt
RECURSIVE Debtors_AtLeast(_, _)
Debtors_AtLeast(s, i) ==
    IF i > Len(members) THEN <<>>
    ELSE LET net == Net(s, members[i])
         IN  (IF net >= Epsilon * Scale
              THEN <<[name |-> members[i], amount |-> net]>> ELSE <<>>)
             \o Debtors_AtLeast(s, i + 1)

\* the debtors array: members with net > 0.01, in roster order
RECURSIVE Debtors(_, _)
Debtors(s, i) ==
    IF i > Len(members) THEN <<>>
    ELSE LET net == Net(s, members[i])
         IN  (IF net > Epsilon * Scale
              THEN <<[name |-> members[i], amount |-> net]>> ELSE <<>>)
             \o Debtors(s, i + 1)

\* the receivers array: members with net < -0.01, in roster order
RECURSIVE Receivers(_, _)
Receivers(s, i) ==
    IF i > Len(members) THEN <<>>
    ELSE LET net == Net(s, members[i])
         IN  (IF net < -(Epsilon * Scale)
              THEN <<[name |-> members[i], amount |-> -net]>> ELSE <<>>)
             \o Receivers(s, i + 1)

\* an insertion that puts r before its equals: the sort is not stable
RECURSIVE InsertDesc_BeforeEquals(_, _)
InsertDesc_BeforeEquals(sorted, r) ==
    IF sorted = <<>> THEN <<r>>
    ELSE IF r.amount >= Head(sorted).amount THEN <<r>> \o sorted
         ELSE <<Head(sorted)>> \o InsertDesc_BeforeEquals(Tail(sorted), r)

\* insert r into a list sorted by descending amount, after its equals
RECURSIVE InsertDesc(_, _)
InsertDesc(sorted, r) ==
    IF sorted = <<>> THEN <<r>>
    ELSE IF r.amount > Head(sorted).amount THEN <<r>> \o sorted
         ELSE <<Head(sorted)>> \o InsertDesc(Tail(sorted), r)

\* the comparator written a.amount - b.amount: ascending
RECURSIVE SortDesc_Ascending(_)
SortDesc_Ascending(rs) ==
    IF rs = <<>> THEN <<>>
    ELSE LET rest == SortDesc_Ascending(SubSeq(rs, 1, Len(rs) - 1))
             r    == rs[Len(rs)]
             k    == Cardinality({i \in 1..Len(rest) : rest[i].amount <= r.amount})
         IN  SubSeq(rest, 1, k) \o <<r>> \o SubSeq(rest, k + 1, Len(rest))

\* receivers.sort((a, b) => b.amount - a.amount): a stable sort
RECURSIVE SortDesc(_)
SortDesc(rs) ==
    IF rs = <<>> THEN <<>>
    ELSE InsertDesc(SortDesc(SubSeq(rs, 1, Len(rs) - 1)), rs[Len(rs)])

\* `${from} to ${to}: $${amount.toFixed(2)}`
Transaction(from, to, amount) ==
    [from |-> from, to |-> to, amount |-> toFixed2(amount)]

\* debtor payments that leave the first debtor out
DebtorPayments_SkipFirst(debtors, highest) ==
    [i \in 1..(Len(debtors) - 1) |->
        [from |-> debtors[i + 1].name, to |-> highest.name,
         amount |-> toFixed2(debtors[i + 1].amount)]]

\* debtors.forEach(d => transactions.push(...))
DebtorPayments(debtors, highest) ==
    [i \in 1..Len(debtors) |->
        Transaction(debtors[i].name, highest.name, debtors[i].amount)]

\* the payouts without slice(1): the hub pays itself too
HubPayouts_NoSlice(sorted) ==
    [i \in 1..Len(sorted) |->
        [from |-> sorted[1].name, to |-> sorted[i].name,
         amount |-> toFixed2(sorted[i].amount)]]

\* receivers.slice(1).forEach(...)
HubPayouts(sorted) ==
    [i \in 1..(Len(sorted) - 1) |->
        Transaction(sorted[1].name, sorted[i + 1].name, sorted[i + 1].amount)]

computeSettlement(s) ==
    LET debtors   == Debtors(s, 1)
        receivers == Receivers(s, 1)
    IN  IF Len(debtors) = 0 \/ Len(receivers) = 0 THEN <<>>
        ELSE LET sorted == SortDesc(receivers)
             IN  DebtorPayments(debtors, sorted[1]) \o HubPayouts(sorted)

----------------------------------------------------------------------------
(* Inputs of the pure functions *)

MaxLen == 2

\* 'Asmi' is the name the roster carried before it was changed to 'Ashmi':
\* records stored before the change still name it
Payers == {"Asim", "Appy", "Asmi"}

Amounts == {1, 100}

\* the cost-sharing fields of a record: the modern field, the legacy field,
\* neither, or both
RespShapes ==
    { [responsible |-> <<"All">>],
      [responsible |-> <<>>],
      [responsible |-> <<"Appy", "Chire">>],
      [responsible |-> <<"Asim", "Asmi">>],
      [beneficiaries |-> <<"All">>],
      [beneficiaries |-> <<"Asmi">>],
      [responsible |-> <<"Chire">>, beneficiaries |-> <<"All">>],
      <<>> }

ExpenseInputs ==
    { [payer |-> p, amount |-> a, category |-> c] @@ r :
        p \in Payers, a \in Amounts, c \in {"Groceries"}, r \in RespShapes }
    \cup
    { [payer |-> "Asim", amount |-> a, category |-> "Transport"] @@ r :
        a \in Amounts, r \in {[responsible |-> <<"All">>], [responsible |-> <<"Appy", "Chire">>]} }

\* lists with three payers of the roster, so that three members can be
\* owed money, equal amounts included
ThreePayerLists ==
    { [i \in 1..Len(members) \div 2 |->
          [payer |-> members[i], amount |-> a[i], category |-> "Groceries",
           responsible |-> <<"All">>]] :
        a \in [1..Len(members) \div 2 -> Amounts \cup {50}] }

Viewpoints == {"All", "Asim", "Chire"}

ListsUpTo(S, n) == UNION {[1..k -> S] : k \in 0..n}

----------------------------------------------------------------------------
(* The application's state as the page starts on an empty store *)

\* handover_id: null
NullId == 0

\* currentEditIndex = null
NullIndex == 0

\* the boxes of a container that are created checked
\* (populateResponsibleCheckboxes: input.checked = selected.includes(value))
Populated(selected) == {v \in {"All"} \cup Roster : Includes(selected, v)}

\* the page as DOMContentLoaded leaves its forms: the add form's boxes are
\* populated with ['All'], the edit modal has no boxes yet
FreshChecked ==
    [c \in {"responsible-options", "edit-responsible"} |->
        IF c = "responsible-options" THEN Populated(<<"All">>) ELSE {}]

\* the section on screen as the page loads.  Only the specification with
\* navigation follows the section; the others leave it where it is.
FirstPage == "dashboard"

FreshForms ==
    /\ checked = FreshChecked
    /\ currentEditIndex = NullIndex
    /\ modalShown = FALSE
    /\ page = FirstPage

\* the page on a store that holds the given active expense rows
AppStartOn(rows) ==
    /\ dbExpenses = rows
    /\ dbHandovers = <<>>
    /\ nextId = Len(rows) + 1
    /\ expenses = rows
    /\ handovers = <<>>
    /\ archivedExpensesByHandover = <<>>
    /\ confirmBtn = [hidden |-> TRUE, dataset |-> <<>>]
    /\ tasks = <<>>
    /\ alert = ""
    /\ FreshForms

AppStart == AppStartOn(<<>>)

CalcIdle ==
    /\ list = <<>>
    /\ person = "All"
    /\ summary = computeSummaryFromList(<<>>)
    /\ transactions = <<>>
    /\ totals = computeCategoryTotalsFromList(<<>>, "All")
    /\ pc = "idle"

----------------------------------------------------------------------------
(* The calculation pipeline: summarize, settle, aggregate by category *)

CalcInit ==
    /\ AppStart
    /\ list \in ListsUpTo(ExpenseInputs, MaxLen) \cup ThreePayerLists
    /\ person \in Viewpoints
    /\ summary = EmptySummary
    /\ transactions = <<>>
    /\ totals = EmptyTotals
    /\ pc = "input"

Summarize ==
    /\ pc = "input"
    /\ summary' = computeSummaryFromList(list)
    /\ pc' = "summarized"
    /\ UNCHANGED <<list, person, transactions, totals>>
    /\ UNCHANGED appVars

Settle ==
    /\ pc = "summarized"
    /\ transactions' = computeSettlement(summary)
    /\ pc' = "settled"
    /\ UNCHANGED <<list, person, summary, totals>>
    /\ UNCHANGED appVars

Categorize ==
    /\ pc = "settled"
    /\ totals' = computeCategoryTotalsFromList(list, person)
    /\ pc' = "done"
    /\ UNCHANGED <<list, person, summary, transactions>>
    /\ UNCHANGED appVars

CalcNext == Summarize \/ Settle \/ Categorize

SpecCalc == CalcInit /\ [][CalcNext]_vars

----------------------------------------------------------------------------
(* The store (the remote expenses and handovers tables) *)

MaxDate == 2        \* dates are 1..MaxDate, compared as the ISO strings are
MaxExpenses == 2    \* expense rows the store ever creates
MaxHandovers == 2   \* handover rows the store ever creates
MaxTasks == 2       \* handlers awaiting the store at one time

Dates == 1..MaxDate

\* the value of an empty date input
EmptyDate == 0

SeqRemove(s, i) == SubSeq(s, 1, i - 1) \o SubSeq(s, i + 1, Len(s))

\* .order(key, { ascending: true }): the rows in ascending order of their
\* keys (keys[i] is the key of rows[i]); the store leaves the order of rows
\* with equal keys open
Ordered(rows, keys) ==
    LET n == Len(rows)
        perms == {q \in [1..n -> 1..n] :
                    /\ \A i, j \in 1..n : i # j => q[i] # q[j]
                    /\ \A i, j \in 1..n : i < j => keys[q[i]] <= keys[q[j]]}
    IN  {[i \in 1..n |-> rows[q[i]]] : q \in perms}

OrderedByDate(rows) == Ordered(rows, [i \in 1..Len(rows) |-> rows[i].date])

\* .from('expenses').select('*').is('handover_id', null).order('date')
ActiveQuery ==
    OrderedByDate(SelectSeq(dbExpenses, LAMBDA r : r.handover_id = NullId))

\* .from('expenses').select('*').not('handover_id', 'is', null).order('date')
ArchivedQuery ==
    OrderedByDate(SelectSeq(dbExpenses, LAMBDA r : r.handover_id # NullId))

\* { ...ho, start: ho.start || ho.start_date, end: ho.end || ho.end_date }
NormalizeHandover(ho) ==
    [start |-> IF "start" \in DOMAIN ho THEN ho.start ELSE ho.start_date,
     end   |-> IF "end" \in DOMAIN ho THEN ho.end ELSE ho.end_date] @@ ho

\* .from('handovers').select('*').order('start_date'), each row normalized
HandoversQuery ==
    {[i \in 1..Len(rows) |-> NormalizeHandover(rows[i])] :
        rows \in Ordered(dbHandovers,
                         [i \in 1..Len(dbHandovers) |-> dbHandovers[i].start_date])}

\* archivedData.forEach(exp => archivedExpensesByHandover[exp.handover_id].push(exp))
GroupByHandover(rows) ==
    [hid \in {rows[i].handover_id : i \in 1..Len(rows)} |->
        SelectSeq(rows, LAMBDA r : r.handover_id = hid)]

----------------------------------------------------------------------------
(* loadData: three reads, each replacing one in-memory structure *)

\* what the first read leaves in `expenses`: the rows, or [] on an error
LoadedExpenses == {<<>>} \cup ActiveQuery

\* what the second read leaves in `handovers`
LoadedHandovers == {<<>>} \cup HandoversQuery

\* what the third read leaves in `archivedExpensesByHandover`
LoadedArchived == {<<>>} \cup {GroupByHandover(rows) : rows \in ArchivedQuery}

----------------------------------------------------------------------------
(* The forms the user submits *)

FormContents ==
    { [payer |-> "Asim", amount |-> 100, category |-> "Groceries",
       responsible |-> <<"All">>],
      [payer |-> "Asim", amount |-> 100, category |-> "Groceries",
       responsible |-> <<>>] }

Forms == {c @@ [date |-> d] : c \in FormContents, d \in Dates}

----------------------------------------------------------------------------
(* addExpense *)

\* the handler up to its await: validation, then the insert is issued
AddExpenseSubmit(f) ==
    /\ alert = ""
    /\ ~modalShown
    /\ UNCHANGED calcVars
    /\ UNCHANGED uiVars
    /\ f.responsible # <<>>
    /\ Len(tasks) < MaxTasks
    /\ nextId + Cardinality({i \in DOMAIN tasks : tasks[i].op = "addExpense"})
          <= MaxExpenses
    /\ tasks' = Append(tasks, [op |-> "addExpense", pc |-> "insert",
                               exp |-> f @@ [handover_id |-> NullId]])
    /\ alert' = ""
    /\ UNCHANGED <<dbExpenses, dbHandovers, nextId, expenses, handovers,
                   archivedExpensesByHandover, confirmBtn>>

\* selected.length === 0: rejected before anything is sent
AddExpenseReject(f) ==
    /\ alert = ""
    /\ ~modalShown
    /\ UNCHANGED calcVars
    /\ UNCHANGED uiVars
    /\ f.responsible = <<>>
    /\ alert' = "Please select at least one responsible person"
    /\ UNCHANGED <<dbExpenses, dbHandovers, nextId, expenses, handovers,
                   archivedExpensesByHandover, confirmBtn, tasks>>

\* the insert's answer: an error, or the created row, pushed to `expenses`
AddExpenseResume(i) ==
    /\ alert = ""
    /\ UNCHANGED calcVars
    /\ i \in DOMAIN tasks
    /\ tasks[i].op = "addExpense"
    /\ tasks' = SeqRemove(tasks, i)
    /\ \/ /\ alert' = "Failed to add expense"
          /\ UNCHANGED <<dbExpenses, nextId, expenses, checked>>
       \/ LET row == tasks[i].exp @@ [id |-> nextId]
          IN  /\ dbExpenses' = Append(dbExpenses, row)
              /\ nextId' = nextId + 1
              /\ expenses' = Append(expenses, row)
              /\ checked' = [checked EXCEPT
                                !["responsible-options"] = Populated(<<"All">>)]
              /\ alert' = "Expense added successfully!"
    /\ UNCHANGED <<currentEditIndex, modalShown, page>>
    /\ UNCHANGED <<dbHandovers, handovers, archivedExpensesByHandover, confirmBtn>>

----------------------------------------------------------------------------
(* generateHandover *)

\* expenses.reduce((min, exp) => (exp.date < min ? exp.date : min), expenses[0].date)
RECURSIVE MinDateFrom(_, _)
MinDateFrom(min, exps) ==
    IF exps = <<>> THEN min
    ELSE MinDateFrom(IF Head(exps).date < min THEN Head(exps).date ELSE min,
                     Tail(exps))

\* startDate: the earliest expense date without handovers, else the end of
\* the last element of `handovers`
startDate(exps, hos) ==
    IF Len(hos) = 0
    THEN MinDateFrom(exps[1].date, exps)
    ELSE hos[Len(hos)].end

\* selectedExpenses: the filter of generateHandover
selectedExpenses(exps, hos, date) ==
    LET start        == startDate(exps, hos)
        includeStart == Len(hos) = 0
    IN  SelectSeq(exps, LAMBDA exp :
            IF includeStart
            THEN exp.date >= start /\ exp.date <= date
            ELSE exp.date > start /\ exp.date <= date)

\* what generateHandover leaves in confirmBtn.dataset
StagedPlan(exps, hos, date) ==
    LET selected == selectedExpenses(exps, hos, date)
        sum      == computeSummaryFromList(selected)
    IN  [start        |-> startDate(exps, hos),
         end          |-> date,
         summary      |-> sum,
         transactions |-> computeSettlement(sum),
         expenseIds   |-> [i \in 1..Len(selected) |-> selected[i].id]]

GenerateHandover(date) ==
    /\ alert = ""
    /\ ~modalShown
    /\ UNCHANGED calcVars
    /\ UNCHANGED uiVars
    /\ IF date = EmptyDate
       THEN alert' = "Please select a handover date" /\ UNCHANGED confirmBtn
       ELSE IF Len(expenses) = 0
       THEN alert' = "No expenses to handover" /\ UNCHANGED confirmBtn
       ELSE IF Len(selectedExpenses(expenses, handovers, date)) = 0
       THEN /\ alert' = "No expenses to handover for the selected date range."
            /\ UNCHANGED confirmBtn
       ELSE /\ confirmBtn' = [hidden  |-> FALSE,
                              dataset |-> StagedPlan(expenses, handovers, date)]
            /\ alert' = ""
    /\ UNCHANGED <<dbExpenses, dbHandovers, nextId, expenses, handovers,
                   archivedExpensesByHandover, tasks>>

----------------------------------------------------------------------------
(* confirmHandover *)

\* the click on the visible button, up to the first await: the dataset is
\* read and the handover insert is issued
ConfirmHandoverClick ==
    /\ alert = ""
    /\ ~modalShown
    /\ UNCHANGED calcVars
    /\ UNCHANGED uiVars
    /\ ~confirmBtn.hidden
    /\ Len(tasks) < MaxTasks
    /\ Len(dbHandovers)
         + Cardinality({i \in DOMAIN tasks :
                          tasks[i].op = "confirmHandover" /\ tasks[i].pc = "insert"})
         < MaxHandovers
    /\ tasks' = Append(tasks,
                   [op |-> "confirmHandover", pc |-> "insert",
                    start        |-> confirmBtn.dataset.start,
                    end          |-> confirmBtn.dataset.end,
                    summary      |-> confirmBtn.dataset.summary,
                    transactions |-> confirmBtn.dataset.transactions,
                    expenseIds   |-> confirmBtn.dataset.expenseIds,
                    newHandover  |-> NullId,
                    k            |-> 1])
    /\ alert' = ""
    /\ UNCHANGED <<dbExpenses, dbHandovers, nextId, expenses, handovers,
                   archivedExpensesByHandover, confirmBtn>>

\* the handover insert's answer
ConfirmInsertResume(i) ==
    /\ alert = ""
    /\ UNCHANGED calcVars
    /\ UNCHANGED uiVars
    /\ i \in DOMAIN tasks
    /\ tasks[i].op = "confirmHandover"
    /\ tasks[i].pc = "insert"
    /\ \/ /\ alert' = "Failed to record handover"
          /\ tasks' = SeqRemove(tasks, i)
          /\ UNCHANGED dbHandovers
       \/ LET row == [id           |-> Len(dbHandovers) + 1,
                      start_date   |-> tasks[i].start,
                      end_date     |-> tasks[i].end,
                      summary      |-> tasks[i].summary,
                      transactions |-> tasks[i].transactions]
          IN  /\ dbHandovers' = Append(dbHandovers, row)
              /\ tasks' = [tasks EXCEPT ![i].pc = "update",
                                        ![i].newHandover = row.id]
              /\ alert' = ""
    /\ UNCHANGED <<dbExpenses, nextId, expenses, handovers,
                   archivedExpensesByHandover, confirmBtn>>

\* a store that archives by copying: the row stays and a stamped copy is added
StampRow_Copy(rows, id, hid) ==
    rows \o [j \in 1..Len(SelectSeq(rows, LAMBDA r : r.id = id)) |->
               [SelectSeq(rows, LAMBDA r : r.id = id)[j] EXCEPT !.handover_id = hid]]

\* update({ handover_id }).eq('id', id) in the store
StampRow(rows, id, hid) ==
    [j \in 1..Len(rows) |->
        IF rows[j].id = id THEN [rows[j] EXCEPT !.handover_id = hid] ELSE rows[j]]

\* the answer of the update of expenseIds[k]: an error is only logged.  After
\* the last one the handed-over expenses leave the local list and loadData
\* is called
ConfirmUpdateResume(i) ==
    /\ alert = ""
    /\ UNCHANGED calcVars
    /\ UNCHANGED uiVars
    /\ i \in DOMAIN tasks
    /\ tasks[i].op = "confirmHandover"
    /\ tasks[i].pc = "update"
    /\ LET t  == tasks[i]
           id == t.expenseIds[t.k]
       IN  /\ \/ dbExpenses' = StampRow(dbExpenses, id, t.newHandover)
              \/ UNCHANGED dbExpenses
           /\ IF t.k < Len(t.expenseIds)
              THEN /\ tasks' = [tasks EXCEPT ![i].k = t.k + 1]
                   /\ UNCHANGED expenses
              ELSE /\ expenses' = SelectSeq(expenses,
                                     LAMBDA exp : ~Includes(t.expenseIds, exp.id))
                   /\ tasks' = [tasks EXCEPT ![i].pc = "loadExpenses"]
    /\ alert' = ""
    /\ UNCHANGED <<dbHandovers, nextId, handovers,
                   archivedExpensesByHandover, confirmBtn>>

\* loadData, first read
LoadExpensesResume(i) ==
    /\ alert = ""
    /\ UNCHANGED calcVars
    /\ UNCHANGED uiVars
    /\ i \in DOMAIN tasks
    /\ tasks[i].pc = "loadExpenses"
    /\ expenses' \in LoadedExpenses
    /\ tasks' = [tasks EXCEPT ![i].pc = "loadHandovers"]
    /\ alert' = ""
    /\ UNCHANGED <<dbExpenses, dbHandovers, nextId, handovers,
                   archivedExpensesByHandover, confirmBtn>>

\* loadData, second read
LoadHandoversResume(i) ==
    /\ alert = ""
    /\ UNCHANGED calcVars
    /\ UNCHANGED uiVars
    /\ i \in DOMAIN tasks
    /\ tasks[i].pc = "loadHandovers"
    /\ handovers' \in LoadedHandovers
    /\ tasks' = [tasks EXCEPT ![i].pc = "loadArchived"]
    /\ alert' = ""
    /\ UNCHANGED <<dbExpenses, dbHandovers, nextId, expenses,
                   archivedExpensesByHandover, confirmBtn>>

\* classList.add('d-none').  The dataset of a hidden button is never read
\* again: only generateHandover shows the button, and it rewrites every
\* field first.  The model drops it.
Hidden == [hidden |-> TRUE, dataset |-> <<>>]

\* loadData, third read; confirmHandover then hides the button and reports
LoadArchivedResume(i) ==
    /\ alert = ""
    /\ UNCHANGED calcVars
    /\ UNCHANGED uiVars
    /\ i \in DOMAIN tasks
    /\ tasks[i].pc = "loadArchived"
    /\ archivedExpensesByHandover' \in LoadedArchived
    /\ confirmBtn' = Hidden
    /\ tasks' = SeqRemove(tasks, i)
    /\ alert' = "Handover completed. The period has been moved to history."
    /\ UNCHANGED <<dbExpenses, dbHandovers, nextId, expenses, handovers>>

----------------------------------------------------------------------------
(* Navigation and page load *)

\* showPage('handover'): the staged summary is cleared, the button hidden
ShowPageHandover ==
    /\ alert = ""
    /\ ~modalShown
    /\ UNCHANGED calcVars
    /\ UNCHANGED uiVars
    /\ confirmBtn' = Hidden
    /\ alert' = ""
    /\ UNCHANGED <<dbExpenses, dbHandovers, nextId, expenses, handovers,
                   archivedExpensesByHandover, tasks>>

\* the page is loaded anew (DOMContentLoaded): loadData runs before any
\* handler is attached
PageLoad ==
    /\ alert = ""
    /\ UNCHANGED calcVars
    /\ tasks = <<>>
    /\ expenses' \in LoadedExpenses
    /\ handovers' \in LoadedHandovers
    /\ archivedExpensesByHandover' \in LoadedArchived
    /\ confirmBtn' = Hidden
    /\ checked' = FreshChecked
    /\ currentEditIndex' = NullIndex
    /\ modalShown' = FALSE
    /\ page' = FirstPage
    /\ alert' = ""
    /\ UNCHANGED <<dbExpenses, dbHandovers, nextId, tasks>>

\* alert() blocks the page until the user dismisses the message: no handler
\* and no continuation runs while one is shown
DismissAlert ==
    /\ alert # ""
    /\ UNCHANGED calcVars
    /\ UNCHANGED uiVars
    /\ alert' = ""
    /\ UNCHANGED <<dbExpenses, dbHandovers, nextId, expenses, handovers,
                   archivedExpensesByHandover, confirmBtn, tasks>>

----------------------------------------------------------------------------
(* The responsible checkboxes *)

\* the values of the checked boxes of a container, in document order:
\* 'All' first, then the members in roster order
Selected(c) ==
    (IF "All" \in checked[c] THEN <<"All">> ELSE <<>>)
        \o SelectSeq(members, LAMBDA m : m \in checked[c])

\* the 'All' box is clicked: checking it unchecks every member
AllChange(boxes) ==
    IF "All" \in boxes THEN boxes \ {"All"} ELSE {"All"}

\* member boxes that leave the 'All' box alone
MemberChange_KeepAll(boxes, m) ==
    IF m \in boxes THEN boxes \ {m} ELSE boxes \cup {m}

\* the box of member m is clicked: checking it unchecks 'All', unchecking
\* the last checked member checks 'All'
MemberChange(boxes, m) ==
    IF m \in boxes
    THEN LET rest == boxes \ {m}
         IN  IF rest \cap Roster = {} THEN rest \cup {"All"} ELSE rest
    ELSE (boxes \cup {m}) \ {"All"}

\* the member whose box the user clicks
Clicked == {"Asim"}

\* the container the user can reach: the edit modal covers the page
Reachable(c) == modalShown <=> c = "edit-responsible"

ToggleAll(c) ==
    /\ alert = ""
    /\ UNCHANGED calcVars
    /\ Reachable(c)
    /\ checked' = [checked EXCEPT ![c] = AllChange(checked[c])]
    /\ UNCHANGED <<dbExpenses, dbHandovers, nextId, expenses, handovers,
                   archivedExpensesByHandover, confirmBtn, tasks, alert,
                   currentEditIndex, modalShown, page>>

ToggleMember(c, m) ==
    /\ alert = ""
    /\ UNCHANGED calcVars
    /\ Reachable(c)
    /\ checked' = [checked EXCEPT ![c] = MemberChange(checked[c], m)]
    /\ UNCHANGED <<dbExpenses, dbHandovers, nextId, expenses, handovers,
                   archivedExpensesByHandover, confirmBtn, tasks, alert,
                   currentEditIndex, modalShown, page>>

\* the other fields of a form
FormFields ==
    {[payer |-> "Asim", amount |-> 100, category |-> "Groceries", date |-> 1]}

\* the forms whose responsible selection is read from the boxes of c
WidgetForms(c) ==
    {fields @@ [responsible |-> Selected(c)] : fields \in FormFields}

----------------------------------------------------------------------------
(* openEditModal, saveEdit, deleteExpense *)

\* what reading an array outside its elements, or at a hole, gives
Undefined == [undefined |-> TRUE]

IsRow(x) == "id" \in DOMAIN x

At(s, idx) == IF idx \in 1..Len(s) THEN s[idx] ELSE Undefined

\* s[idx] = v: past the end the array grows, leaving holes
SetAt(s, idx, v) ==
    [k \in 1..(IF idx > Len(s) THEN idx ELSE Len(s)) |->
        IF k = idx THEN v ELSE IF k <= Len(s) THEN s[k] ELSE Undefined]

\* s.splice(idx, 1)
Splice(s, idx) == IF idx \in 1..Len(s) THEN SeqRemove(s, idx) ELSE s

\* the Edit button of a listed expense: the modal opens on it
OpenEditModal(index) ==
    /\ alert = ""
    /\ ~modalShown
    /\ UNCHANGED calcVars
    /\ index \in 1..Len(expenses)
    /\ IsRow(expenses[index])
    /\ currentEditIndex' = index
    /\ LET respList == RespField(expenses[index])
           selected == IF Includes(respList, "All") \/ Len(respList) = 0
                       THEN <<"All">> ELSE respList
       IN  checked' = [checked EXCEPT !["edit-responsible"] = Populated(selected)]
    /\ modalShown' = TRUE
    /\ UNCHANGED <<dbExpenses, dbHandovers, nextId, expenses, handovers,
                   archivedExpensesByHandover, confirmBtn, tasks, alert, page>>

\* the modal is dismissed without saving; currentEditIndex stays
CloseEditModal ==
    /\ alert = ""
    /\ modalShown
    /\ UNCHANGED calcVars
    /\ modalShown' = FALSE
    /\ UNCHANGED <<dbExpenses, dbHandovers, nextId, expenses, handovers,
                   archivedExpensesByHandover, confirmBtn, tasks, alert,
                   checked, currentEditIndex, page>>

\* saveEdit up to its await: validation, then the update is issued.  Reading
\* the id of a missing expense throws, which the handler catches
SaveEditSubmit(f) ==
    /\ alert = ""
    /\ modalShown
    /\ UNCHANGED calcVars
    /\ UNCHANGED uiVars
    /\ currentEditIndex # NullIndex
    /\ f.responsible # <<>>
    /\ LET existing == At(expenses, currentEditIndex)
       IN  IF IsRow(existing)
           THEN /\ Len(tasks) < MaxTasks
                /\ tasks' = Append(tasks, [op |-> "saveEdit", pc |-> "update",
                                           idx |-> currentEditIndex,
                                           existing |-> existing,
                                           updated |-> f])
                /\ alert' = ""
           ELSE /\ alert' = "An unexpected error occurred while updating expense"
                /\ UNCHANGED tasks
    /\ UNCHANGED <<dbExpenses, dbHandovers, nextId, expenses, handovers,
                   archivedExpensesByHandover, confirmBtn>>

\* selected.length === 0: rejected before anything is sent
SaveEditReject(f) ==
    /\ alert = ""
    /\ modalShown
    /\ UNCHANGED calcVars
    /\ UNCHANGED uiVars
    /\ currentEditIndex # NullIndex
    /\ f.responsible = <<>>
    /\ alert' = "Please select at least one responsible person"
    /\ UNCHANGED <<dbExpenses, dbHandovers, nextId, expenses, handovers,
                   archivedExpensesByHandover, confirmBtn, tasks>>

\* update(updated).eq('id', id) in the store
UpdateRow(rows, id, updated) ==
    [j \in 1..Len(rows) |-> IF rows[j].id = id THEN updated @@ rows[j] ELSE rows[j]]

\* the update's answer: an error, or the record is replaced in the local
\* array at the index the handler started with, and the modal is hidden
SaveEditResume(i) ==
    /\ alert = ""
    /\ UNCHANGED calcVars
    /\ i \in DOMAIN tasks
    /\ tasks[i].op = "saveEdit"
    /\ tasks' = SeqRemove(tasks, i)
    /\ \/ /\ alert' = "Failed to update expense"
          /\ UNCHANGED <<dbExpenses, expenses, currentEditIndex, modalShown>>
       \/ LET t == tasks[i]
          IN  /\ dbExpenses' = UpdateRow(dbExpenses, t.existing.id, t.updated)
              /\ expenses' = SetAt(expenses, t.idx, t.updated @@ t.existing)
              /\ modalShown' = FALSE
              /\ currentEditIndex' = NullIndex
              /\ alert' = ""
    /\ UNCHANGED <<dbHandovers, nextId, handovers, archivedExpensesByHandover,
                   confirmBtn, checked, page>>

\* the Delete button of a listed expense, the confirm() accepted: the
\* expense at the index is read and its delete is issued
DeleteExpense(index) ==
    /\ alert = ""
    /\ ~modalShown
    /\ UNCHANGED calcVars
    /\ UNCHANGED uiVars
    /\ index \in 1..Len(expenses)
    /\ IsRow(expenses[index])
    /\ Len(tasks) < MaxTasks
    /\ tasks' = Append(tasks, [op |-> "deleteExpense", pc |-> "delete",
                               index |-> index, exp |-> expenses[index]])
    /\ alert' = ""
    /\ UNCHANGED <<dbExpenses, dbHandovers, nextId, expenses, handovers,
                   archivedExpensesByHandover, confirmBtn>>

\* optimistic removal: the local list is spliced whatever the store answers
DeleteExpenseResume_Optimistic(i) ==
    /\ alert = ""
    /\ UNCHANGED calcVars
    /\ UNCHANGED uiVars
    /\ i \in DOMAIN tasks
    /\ tasks[i].op = "deleteExpense"
    /\ tasks' = SeqRemove(tasks, i)
    /\ expenses' = Splice(expenses, tasks[i].index)
    /\ \/ /\ alert' = "Failed to delete expense"
          /\ UNCHANGED dbExpenses
       \/ /\ dbExpenses' = SelectSeq(dbExpenses, LAMBDA r : r.id # tasks[i].exp.id)
          /\ alert' = ""
    /\ UNCHANGED <<dbHandovers, nextId, handovers, archivedExpensesByHandover,
                   confirmBtn>>

\* the delete's answer: an error, or the local list is spliced at the index
\* the handler started with
DeleteExpenseResume(i) ==
    /\ alert = ""
    /\ UNCHANGED calcVars
    /\ UNCHANGED uiVars
    /\ i \in DOMAIN tasks
    /\ tasks[i].op = "deleteExpense"
    /\ tasks' = SeqRemove(tasks, i)
    /\ \/ /\ alert' = "Failed to delete expense"
          /\ UNCHANGED <<dbExpenses, expenses>>
       \/ /\ dbExpenses' = SelectSeq(dbExpenses, LAMBDA r : r.id # tasks[i].exp.id)
          /\ expenses' = Splice(expenses, tasks[i].index)
          /\ alert' = ""
    /\ UNCHANGED <<dbHandovers, nextId, handovers, archivedExpensesByHandover,
                   confirmBtn>>

----------------------------------------------------------------------------
(* The application *)

Init == CalcIdle /\ AppStart

Next ==
    \/ \E f \in Forms : AddExpenseSubmit(f)
    \/ \E f \in Forms : AddExpenseReject(f)
    \/ \E i \in 1..MaxTasks : AddExpenseResume(i)
    \/ \E date \in {EmptyDate} \cup Dates : GenerateHandover(date)
    \/ ConfirmHandoverClick
    \/ \E i \in 1..MaxTasks : ConfirmInsertResume(i)
    \/ \E i \in 1..MaxTasks : ConfirmUpdateResume(i)
    \/ \E i \in 1..MaxTasks : LoadExpensesResume(i)
    \/ \E i \in 1..MaxTasks : LoadHandoversResume(i)
    \/ \E i \in 1..MaxTasks : LoadArchivedResume(i)
    \/ ShowPageHandover
    \/ PageLoad
    \/ DismissAlert

Spec == Init /\ [][Next]_vars

----------------------------------------------------------------------------
(* The expense forms: adding, editing and deleting on a store that may hold
   records of the earlier versions *)

\* records the store may hold from before: one naming 'Asmi', the name the
\* roster carried then, and one under the legacy field name
StoredBefore ==
    { <<>>,
      <<[id |-> 1, date |-> 1, payer |-> "Asim", amount |-> 100,
         category |-> "Groceries", handover_id |-> NullId,
         responsible |-> <<"Appy", "Asmi">>]>>,
      <<[id |-> 1, date |-> 1, payer |-> "Asim", amount |-> 100,
         category |-> "Groceries", handover_id |-> NullId,
         beneficiaries |-> <<"Asmi">>]>> }

InitEdit == CalcIdle /\ \E rows \in StoredBefore : AppStartOn(rows)

NextEdit ==
    \/ \E c \in DOMAIN checked : ToggleAll(c)
    \/ \E c \in DOMAIN checked, m \in Clicked : ToggleMember(c, m)
    \/ \E f \in WidgetForms("responsible-options") : AddExpenseSubmit(f)
    \/ \E f \in WidgetForms("responsible-options") : AddExpenseReject(f)
    \/ \E i \in 1..MaxTasks : AddExpenseResume(i)
    \/ \E index \in 1..MaxExpenses : OpenEditModal(index)
    \/ CloseEditModal
    \/ \E f \in WidgetForms("edit-responsible") : SaveEditSubmit(f)
    \/ \E f \in WidgetForms("edit-responsible") : SaveEditReject(f)
    \/ \E i \in 1..MaxTasks : SaveEditResume(i)
    \/ \E index \in 1..MaxExpenses : DeleteExpense(index)
    \/ \E i \in 1..MaxTasks : DeleteExpenseResume(i)
    \/ DismissAlert

SpecEdit == InitEdit /\ [][NextEdit]_vars

----------------------------------------------------------------------------
(* Navigation: the expenses list and the handover controls are on different
   sections, and the user moves between them while handlers await the store *)

\* the sections the user moves between
Pages == {"expenses", "handover"}

\* showPage(page): entering the handover section clears the staged summary
\* and hides the confirm button
ShowPage(p) ==
    /\ alert = ""
    /\ ~modalShown
    /\ UNCHANGED calcVars
    /\ page' = p
    /\ confirmBtn' = IF p = "handover" THEN Hidden ELSE confirmBtn
    /\ UNCHANGED <<dbExpenses, dbHandovers, nextId, expenses, handovers,
                   archivedExpensesByHandover, tasks, alert,
                   checked, currentEditIndex, modalShown>>

\* the active expenses the store holds as the page loads
StoredNow ==
    <<[id |-> 1, date |-> 1, payer |-> "Asim", amount |-> 100,
       category |-> "Groceries", handover_id |-> NullId,
       responsible |-> <<"All">>],
      [id |-> 2, date |-> 2, payer |-> "Appy", amount |-> 50,
       category |-> "Groceries", handover_id |-> NullId,
       responsible |-> <<"All">>]>>

InitPages == CalcIdle /\ AppStartOn(StoredNow)

NextPages ==
    \/ \E p \in Pages : ShowPage(p)
    \/ \E index \in 1..MaxExpenses : page = "expenses" /\ DeleteExpense(index)
    \/ \E i \in 1..MaxTasks : DeleteExpenseResume(i)
    \/ \E date \in Dates : page = "handover" /\ GenerateHandover(date)
    \/ page = "handover" /\ ConfirmHandoverClick
    \/ \E i \in 1..MaxTasks : ConfirmInsertResume(i)
    \/ \E i \in 1..MaxTasks : ConfirmUpdateResume(i)
    \/ \E i \in 1..MaxTasks : LoadExpensesResume(i)
    \/ \E i \in 1..MaxTasks : LoadHandoversResume(i)
    \/ \E i \in 1..MaxTasks : LoadArchivedResume(i)
    \/ DismissAlert

SpecPages == InitPages /\ [][NextPages]_vars

----------------------------------------------------------------------------
(* The localStorage variant (script.js): the same pages without a remote
   store.  Every handler runs to its end in one step.  dbExpenses and
   dbHandovers stand for the items 'expenses' and 'handovers' of
   localStorage; a handover record holds its expenses itself. *)

\* addExpense of script.js: the entry is pushed and saved
LocalAddExpense(f) ==
    /\ alert = ""
    /\ UNCHANGED calcVars
    /\ IF f.responsible = <<>>
       THEN /\ alert' = "Please select at least one responsible person"
            /\ UNCHANGED <<expenses, dbExpenses, checked>>
       ELSE /\ Len(expenses) < MaxExpenses
            /\ expenses' = Append(expenses, f)
            /\ dbExpenses' = expenses'
            /\ checked' = [checked EXCEPT
                              !["responsible-options"] = Populated(<<"All">>)]
            /\ alert' = "Expense added successfully!"
    /\ UNCHANGED <<dbHandovers, nextId, handovers, archivedExpensesByHandover,
                   confirmBtn, tasks, currentEditIndex, modalShown, page>>

\* deleteExpense of script.js, the confirm() accepted
LocalDeleteExpense(index) ==
    /\ alert = ""
    /\ UNCHANGED calcVars
    /\ UNCHANGED uiVars
    /\ index \in 1..Len(expenses)
    /\ expenses' = Splice(expenses, index)
    /\ dbExpenses' = expenses'
    /\ UNCHANGED <<dbHandovers, nextId, handovers, archivedExpensesByHandover,
                   confirmBtn, tasks, alert>>

\* what generateHandover of script.js leaves in confirmBtn.dataset: the
\* summary of the whole current list
LocalStagedPlan(exps, hos, date) ==
    LET sum == computeSummaryFromList(exps)
    IN  [start        |-> startDate(exps, hos),
         end          |-> date,
         summary      |-> sum,
         transactions |-> computeSettlement(sum)]

LocalGenerateHandover(date) ==
    /\ alert = ""
    /\ UNCHANGED calcVars
    /\ UNCHANGED uiVars
    /\ IF date = EmptyDate
       THEN alert' = "Please select a handover date" /\ UNCHANGED confirmBtn
       ELSE IF Len(expenses) = 0
       THEN alert' = "No expenses to handover" /\ UNCHANGED confirmBtn
       ELSE /\ confirmBtn' = [hidden  |-> FALSE,
                              dataset |-> LocalStagedPlan(expenses, handovers, date)]
            /\ alert' = ""
    /\ UNCHANGED <<dbExpenses, dbHandovers, nextId, expenses, handovers,
                   archivedExpensesByHandover, tasks>>

\* confirmHandover of script.js: the current expenses are cloned into a new
\* record, the current list is emptied, both are saved
LocalConfirmHandover ==
    /\ alert = ""
    /\ UNCHANGED calcVars
    /\ UNCHANGED uiVars
    /\ ~confirmBtn.hidden
    /\ Len(handovers) < MaxHandovers
    /\ handovers' = Append(handovers,
                       [expenses |-> expenses] @@ confirmBtn.dataset)
    /\ dbHandovers' = handovers'
    /\ expenses' = <<>>
    /\ dbExpenses' = expenses'
    /\ confirmBtn' = Hidden
    /\ alert' = "Handover completed. The period has been moved to history."
    /\ UNCHANGED <<nextId, archivedExpensesByHandover, tasks>>

\* the page is loaded anew: both arrays are parsed from localStorage
LocalPageLoad ==
    /\ alert = ""
    /\ UNCHANGED calcVars
    /\ UNCHANGED uiVars
    /\ expenses' = dbExpenses
    /\ handovers' = dbHandovers
    /\ confirmBtn' = Hidden
    /\ UNCHANGED <<dbExpenses, dbHandovers, nextId, archivedExpensesByHandover,
                   tasks, alert>>

NextLocal ==
    \/ \E f \in Forms : LocalAddExpense(f)
    \/ \E index \in 1..MaxExpenses : LocalDeleteExpense(index)
    \/ \E date \in {EmptyDate} \cup Dates : LocalGenerateHandover(date)
    \/ LocalConfirmHandover
    \/ ShowPageHandover
    \/ LocalPageLoad
    \/ DismissAlert

SpecLocal == Init /\ [][NextLocal]_vars

----------------------------------------------------------------------------
(* Arithmetic used to state the properties *)

RECURSIVE SumSeq(_)
SumSeq(s) == IF s = <<>> THEN 0 ELSE Head(s) + SumSeq(Tail(s))

Abs(x) == IF x < 0 THEN -x ELSE x

\* the value x (in units) to the nearest cent, halves upward
RoundCents(x) == (2 * x + Scale) \div (2 * Scale)

Summarized == pc \in {"summarized", "settled", "done"}
Settled == pc \in {"settled", "done"}

SumNet == SumSeq([i \in 1..Len(members) |-> Net(summary, members[i])])

TotalAmount == SumSeq([i \in 1..Len(list) |-> list[i].amount * Scale])

PaidBy(m) ==
    SumSeq([i \in 1..Len(list) |->
              IF list[i].payer = m THEN list[i].amount * Scale ELSE 0])

\* the selection of a record as stored: its modern field, else its legacy
\* field, else nothing
Selection(exp) ==
    IF "responsible" \in DOMAIN exp THEN exp.responsible
    ELSE IF "beneficiaries" \in DOMAIN exp THEN exp.beneficiaries
    ELSE <<>>

SelectsAll(exp) == "All" \in Range(Selection(exp))
SelectsNothing(exp) == Selection(exp) = <<>>
SelectsExplicit(exp) == ~SelectsAll(exp) /\ ~SelectsNothing(exp)

----------------------------------------------------------------------------
(* C1 -- zero-sum *)

\* C1: after computeSummaryFromList, the nets (share - paid) of all roster
\* members sum to zero.  Stated with the claim's own premise that every
\* amount is paid by one payer of the roster.
C1_ZeroSum ==
    (Summarized /\ \A i \in 1..Len(list) : list[i].payer \in Roster)
        => SumNet = 0

----------------------------------------------------------------------------
(* C8 -- the summary's entries and paid totals *)

\* C8: the summary has an entry for exactly the roster members, all zero for
\* the empty list; paid(m) is the sum of the amounts of the expenses whose
\* payer is m, so an expense paid by a stranger adds to nobody's total.
C8_PaidTotals ==
    Summarized =>
        /\ DOMAIN summary = Roster
        /\ \A m \in Roster : DOMAIN summary[m] = {"paid", "share"}
        /\ \A m \in Roster : summary[m].paid = PaidBy(m)
        /\ list = <<>> => \A m \in Roster : summary[m].paid = 0 /\ summary[m].share = 0
        /\ SumSeq([i \in 1..Len(members) |-> summary[members[i]].paid])
             = SumSeq([i \in 1..Len(list) |->
                         IF list[i].payer \in Roster THEN list[i].amount * Scale ELSE 0])

C8_Witness ==
    /\ Summarized
    /\ Len(list) = 2
    /\ list[1].payer = "Asmi"
    /\ list[2].payer = "Asim"
    /\ summary["Asim"].paid = list[2].amount * Scale

----------------------------------------------------------------------------
(* Settlement: who owes, who is owed, and what the plan moves *)

DebtorSet == {m \in Roster : Net(summary, m) > Epsilon * Scale}
CreditorSet == {m \in Roster : Net(summary, m) < -(Epsilon * Scale)}
SettledSet == Roster \ (DebtorSet \cup CreditorSet)

\* cents the plan pays to m, and cents it has m pay
Inflow(m) ==
    SumSeq([i \in 1..Len(transactions) |->
              IF transactions[i].to = m THEN transactions[i].amount ELSE 0])
Outflow(m) ==
    SumSeq([i \in 1..Len(transactions) |->
              IF transactions[i].from = m THEN transactions[i].amount ELSE 0])

RosterIndex(m) == CHOOSE k \in 1..Len(members) : members[k] = m

\* the cents owed by, or to, each member of a set, summed
RoundedOwed(S) ==
    SumSeq([i \in 1..Len(members) |->
              IF members[i] \in S THEN RoundCents(Abs(Net(summary, members[i]))) ELSE 0])

SettledResidue ==
    SumSeq([i \in 1..Len(members) |->
              IF members[i] \in SettledSet THEN Abs(Net(summary, members[i])) ELSE 0])

----------------------------------------------------------------------------
(* C2 -- settlement correctness *)

\* a record as the data model has it: a payer of the roster, and a
\* selection that is 'All' or names roster members only
WellFormed(exp) ==
    /\ exp.payer \in Roster
    /\ \/ SelectsAll(exp)
       \/ SelectsExplicit(exp) /\ Range(Selection(exp)) \subseteq Roster

----------------------------------------------------------------------------
(* C3 -- number of transactions *)

\* C3: the plan holds debtors + creditors - 1 transactions when there is at
\* least one debtor and one creditor, and none otherwise.
C3_TransactionCount ==
    Settled =>
        Len(transactions) =
            IF DebtorSet # {} /\ CreditorSet # {}
            THEN Cardinality(DebtorSet) + Cardinality(CreditorSet) - 1
            ELSE 0

C3_Witness ==
    /\ Settled
    /\ Cardinality(DebtorSet) >= 2
    /\ Cardinality(CreditorSet) >= 2
    /\ Len(transactions) = Cardinality(DebtorSet) + 1

----------------------------------------------------------------------------
(* C4 -- the hub *)

\* C4: in a non-empty plan the hub is a creditor owed the largest amount,
\* every transaction has the hub as payer or payee, each debtor is in
\* exactly one transaction, paying the hub the amount it owes (as the plan
\* prints it, to the cent), and the debtors' payments come first, in roster
\* order, before any payout of the hub.
C4_HubStar ==
    (Settled /\ transactions # <<>>) =>
        \E h \in CreditorSet :
            LET nd == Cardinality(DebtorSet)
                t  == transactions
            IN  /\ \A c \in CreditorSet : Net(summary, h) <= Net(summary, c)
                /\ \A i \in 1..Len(t) : t[i].from = h \/ t[i].to = h
                /\ \A d \in DebtorSet :
                     \E i \in 1..Len(t) :
                        /\ t[i].from = d
                        /\ t[i].to = h
                        /\ t[i].amount = RoundCents(Net(summary, d))
                        /\ \A j \in 1..Len(t) :
                             (t[j].from = d \/ t[j].to = d) => j = i
                /\ nd <= Len(t)
                /\ \A i \in 1..nd : t[i].from \in DebtorSet /\ t[i].to = h
                /\ \A i \in (nd + 1)..Len(t) : t[i].from = h
                /\ \A i, j \in 1..nd :
                     i < j => RosterIndex(t[i].from) < RosterIndex(t[j].from)

C4_Witness ==
    /\ Settled
    /\ Cardinality(DebtorSet) >= 2
    /\ \E a, b \in CreditorSet :
         /\ RosterIndex(a) < RosterIndex(b)
         /\ Net(summary, b) < Net(summary, a)
         /\ transactions[1].to = b

----------------------------------------------------------------------------
(* C5 -- 'All', empty and missing selections *)

SumTotals == SumSeq([i \in 1..Len(categories) |-> totals[categories[i]]])

\* C5: an expense whose selection is 'All', is empty, or is missing under
\* both field names is shared equally among the whole roster, by the
\* summary and by the category totals of a member's viewpoint.
C5_AllOrEmptySharesRoster ==
    (pc = "done" /\ \A i \in 1..Len(list) :
                       SelectsAll(list[i]) \/ SelectsNothing(list[i]))
        => /\ \A m \in Roster : summary[m].share = TotalAmount \div Len(members)
           /\ person \in Roster => SumTotals = TotalAmount \div Len(members)

----------------------------------------------------------------------------
(* C6 -- resolver totality *)

\* C6: whatever its selection, every expense gives a share to at least one
\* roster member.
C6_ShareNeverEmpty ==
    Summarized =>
        \A i \in 1..Len(list) :
            \E m \in Roster : computeSummaryFromList(<<list[i]>>)[m].share > 0

----------------------------------------------------------------------------
(* C7 -- explicit selections *)

\* the roster members an explicit selection names
Resolved(exp) == Range(Selection(exp)) \cap Roster

\* amount / max(1, |resolved set|) for a member of the resolved set
FilteredShare(exp, m) ==
    IF m \in Resolved(exp)
    THEN (exp.amount * Scale) \div
            (IF Resolved(exp) = {} THEN 1 ELSE Cardinality(Resolved(exp)))
    ELSE 0

\* C7: with explicit selections, names outside the roster are ignored and
\* each roster member named is charged amount / max(1, number of roster
\* members named).
C7_ExplicitFiltered ==
    (Summarized /\ \A i \in 1..Len(list) : SelectsExplicit(list[i]))
        => \A m \in Roster :
              summary[m].share =
                  SumSeq([i \in 1..Len(list) |-> FilteredShare(list[i], m)])

----------------------------------------------------------------------------
(* C9 -- category totals of the 'All' viewpoint *)

\* C9: the category totals of viewpoint 'All', summed over the categories,
\* equal the sum of the amounts of the list.
C9_CategoryTotalsAll ==
    (pc = "done" /\ person = "All") => SumTotals = TotalAmount

C9_Witness ==
    /\ pc = "done"
    /\ person = "All"
    /\ Len(list) = 2
    /\ list[1].category # list[2].category
    /\ ~SelectsAll(list[1])
    /\ totals[list[1].category] = list[1].amount * Scale
    /\ totals[list[2].category] = list[2].amount * Scale

----------------------------------------------------------------------------
(* C10 -- the period start *)

\* the past period closed last: the handover the store created last
MostRecent(hos) ==
    hos[CHOOSE i \in 1..Len(hos) : \A j \in 1..Len(hos) : hos[j].id <= hos[i].id]

EarliestActiveDate ==
    CHOOSE d \in {expenses[i].date : i \in 1..Len(expenses)} :
        \A i \in 1..Len(expenses) : d <= expenses[i].date

\* a step of generateHandover that stages a plan
Stages == (\E date \in Dates : GenerateHandover(date)) /\ alert' = ""

\* C10: generateHandover sets the period start to the end date of the most
\* recent past period when there is one, and to the earliest date among the
\* active expenses otherwise.
C10_PeriodStart ==
    [][Stages =>
          confirmBtn'.dataset.start =
              IF Len(handovers) > 0
              THEN MostRecent(handovers).end
              ELSE EarliestActiveDate]_vars

----------------------------------------------------------------------------
(* C11 -- the expenses a handover selects *)

\* the period start of the boundary rule
PeriodStart ==
    IF Len(handovers) > 0 THEN MostRecent(handovers).end ELSE EarliestActiveDate

\* the inclusion rule: from the period start (included only when no past
\* period exists) up to and including the candidate end
InPeriod(exp, candidateEnd) ==
    /\ IF Len(handovers) = 0 THEN PeriodStart <= exp.date ELSE PeriodStart < exp.date
    /\ exp.date <= candidateEnd

Ids(rows) == [i \in 1..Len(rows) |-> rows[i].id]

\* C11: a generateHandover that stages a plan selects exactly the active
\* expenses with periodStart <= date <= candidateEnd when there is no past
\* period, and exactly those with periodStart < date <= candidateEnd
\* otherwise: none dated on the previous period's end or after the candidate
\* end.
C11_SelectedInPeriod ==
    [][\A date \in Dates :
          (GenerateHandover(date) /\ alert' = "") =>
              confirmBtn'.dataset.expenseIds =
                  Ids(SelectSeq(expenses, LAMBDA exp : InPeriod(exp, date)))]_vars


----------------------------------------------------------------------------
(* C12 -- a handover attempt that selects nothing *)

NothingToHandOver ==
    {"No expenses to handover",
     "No expenses to handover for the selected date range."}

\* a step of generateHandover that reports that there is nothing to hand over
ReportsNothing ==
    (\E date \in Dates : GenerateHandover(date)) /\ alert' \in NothingToHandOver

\* C12: when generateHandover finds no active expense, or none in the period,
\* it reports it and the handover does not proceed: expenses and handovers
\* are unchanged and no plan is left for confirmHandover to commit, not even
\* one staged by an earlier generateHandover.
C12_NothingSelectedStops ==
    [][ReportsNothing =>
          /\ confirmBtn'.hidden
          /\ expenses' = expenses /\ handovers' = handovers
          /\ dbExpenses' = dbExpenses /\ dbHandovers' = dbHandovers]_vars


----------------------------------------------------------------------------
(* C13 -- what a completed confirmHandover leaves behind *)

IdSet(rows) == {rows[i].id : i \in 1..Len(rows)}

\* the step on which confirmHandover reports completion
Completes(i) ==
    /\ LoadArchivedResume(i)
    /\ tasks[i].op = "confirmHandover"
    /\ alert' = "Handover completed. The period has been moved to history."

\* C13: when confirmHandover reports completion, every expense selected by
\* the generateHandover before it carries the new period's id in the store,
\* exactly one period record has that id and holds the staged start, end,
\* summary and transactions, and the in-memory list holds, each once, the
\* expenses that were active (the store's rows without a period, and the
\* rows this commit was to stamp) minus exactly the selected ones.
C13_CommitEffect ==
    [][\A i \in 1..MaxTasks :
          Completes(i) =>
              LET t == tasks[i]
                  stamped == {j \in 1..Len(dbExpenses') :
                                dbExpenses'[j].handover_id = t.newHandover}
                  active  == {j \in 1..Len(dbExpenses') :
                                dbExpenses'[j].handover_id = NullId}
                  created == {j \in 1..Len(dbHandovers') :
                                dbHandovers'[j].id = t.newHandover}
              IN  /\ Range(t.expenseIds) \subseteq {dbExpenses'[j].id : j \in stamped}
                  /\ Cardinality(created) = 1
                  /\ \A j \in created :
                        /\ dbHandovers'[j].start_date = t.start
                        /\ dbHandovers'[j].end_date = t.end
                        /\ dbHandovers'[j].summary = t.summary
                        /\ dbHandovers'[j].transactions = t.transactions
                  /\ IdSet(expenses') =
                        {dbExpenses'[j].id : j \in (active \cup stamped)}
                            \ Range(t.expenseIds)
                  /\ Len(expenses') = Cardinality(IdSet(expenses'))]_vars


----------------------------------------------------------------------------
(* C14 -- a remote call of confirmHandover is rejected *)

\* the step on which the store rejects the handover insert
InsertRejected(i) == ConfirmInsertResume(i) /\ dbHandovers' = dbHandovers

\* the step on which the store rejects the update of one selected expense:
\* the row is there to be stamped and stays as it is
UpdateRejected(i) ==
    /\ ConfirmUpdateResume(i)
    /\ dbExpenses' = dbExpenses
    /\ \E j \in 1..Len(dbExpenses) :
          /\ dbExpenses[j].id = tasks[i].expenseIds[tasks[i].k]
          /\ dbExpenses[j].handover_id # tasks[i].newHandover

FailureReports ==
    {"Failed to record handover", "Failed to retrieve new handover",
     "An unexpected error occurred while completing the handover"}

\* C14: when the store rejects the handover insert or the update of a
\* selected expense, confirmHandover leaves the in-memory list as it was,
\* reports the failure instead of completing, and ends without another call.
C14_RejectedCommit ==
    [][\A i \in 1..MaxTasks :
          (InsertRejected(i) \/ UpdateRejected(i)) =>
              /\ expenses' = expenses
              /\ alert' \in FailureReports
              /\ tasks' = SeqRemove(tasks, i)]_vars


----------------------------------------------------------------------------
(* C15 -- one period record per confirmation *)

CommitsInFlight == {i \in DOMAIN tasks : tasks[i].op = "confirmHandover"}

\* the plan a period record holds
PlanOf(ho) == <<ho.start_date, ho.end_date, ho.summary, ho.transactions>>

\* C15: in every interleaving at most one confirmHandover is awaiting the
\* store, and no two period records hold the same staged plan.
C15_OneCommitAtATime ==
    /\ Cardinality(CommitsInFlight) <= 1
    /\ \A i, j \in 1..Len(dbHandovers) :
          PlanOf(dbHandovers[i]) = PlanOf(dbHandovers[j]) => i = j


----------------------------------------------------------------------------
(* C16 -- a handover moves no expense record *)

\* a step of generateHandover or of confirmHandover (its reload included)
HandoverStep ==
    \/ \E date \in {EmptyDate} \cup Dates : GenerateHandover(date)
    \/ ConfirmHandoverClick
    \/ \E i \in 1..MaxTasks :
          \/ ConfirmInsertResume(i)
          \/ ConfirmUpdateResume(i)
          \/ LoadExpensesResume(i)
          \/ LoadHandoversResume(i)
          \/ LoadArchivedResume(i)

\* a row without its period reference
Unfiled(row) == [row EXCEPT !.handover_id = NullId]

\* C16: no step of generateHandover or confirmHandover adds, removes or
\* duplicates an expense row of the store, active or archived, and none
\* changes a field of a row other than its handover_id.
C16_ExpensesKept ==
    [][HandoverStep =>
          /\ Len(dbExpenses') = Len(dbExpenses)
          /\ \A j \in 1..Len(dbExpenses) :
                Unfiled(dbExpenses'[j]) = Unfiled(dbExpenses[j])]_vars

C16_Witness ==
    /\ Len(dbExpenses) = 2
    /\ Len(dbHandovers) = 1
    /\ dbExpenses[1].handover_id = dbHandovers[1].id
    /\ dbExpenses[2].handover_id = NullId
    /\ tasks = <<>>
    /\ confirmBtn.hidden


----------------------------------------------------------------------------
(* C17 -- the store rejects an insert, an update or a delete *)

\* the step on which the store rejects the insert of addExpense: no row is
\* created
AddRejected(i) == AddExpenseResume(i) /\ dbExpenses' = dbExpenses

\* the step on which the store rejects the update of saveEdit: the row is
\* there, differs from the form, and stays as it is
SaveRejected(i) ==
    /\ SaveEditResume(i)
    /\ dbExpenses' = dbExpenses
    /\ UpdateRow(dbExpenses, tasks[i].existing.id, tasks[i].updated) # dbExpenses

\* the step on which the store rejects the delete of deleteExpense: the row
\* is there and stays
DeleteRejected(i) ==
    /\ DeleteExpenseResume(i)
    /\ dbExpenses' = dbExpenses
    /\ tasks[i].exp.id \in IdSet(dbExpenses)

RejectionReports ==
    {"Failed to add expense", "Failed to update expense",
     "Failed to delete expense"}

\* C17: when the store rejects the insert of addExpense, the update of
\* saveEdit or the delete of deleteExpense, the in-memory list is unchanged,
\* the failure is reported, and the handler ends without another call.
C17_RejectedWrite ==
    [][\A i \in 1..MaxTasks :
          (AddRejected(i) \/ SaveRejected(i) \/ DeleteRejected(i)) =>
              /\ expenses' = expenses
              /\ alert' \in RejectionReports
              /\ tasks' = SeqRemove(tasks, i)]_vars

C17_Witness ==
    /\ alert = "Failed to delete expense"
    /\ tasks = <<>>
    /\ Len(expenses) = 2
    /\ IdSet(expenses) = IdSet(dbExpenses)


----------------------------------------------------------------------------
(* C18 -- the responsibility of a stored expense *)

\* exactly the sentinel, or a non-empty list of roster members
ValidResponsibility(resp) ==
    \/ resp = <<"All">>
    \/ /\ resp # <<>>
       /\ Range(resp) \subseteq Roster
       /\ \A i, j \in 1..Len(resp) : resp[i] = resp[j] => i = j

\* the step on which addExpense has its row created
AddStored(i) == AddExpenseResume(i) /\ Len(dbExpenses') = Len(dbExpenses) + 1

\* the step on which saveEdit has its update applied
EditStored(i) == SaveEditResume(i) /\ alert' # "Failed to update expense"

\* a submission with no box checked
NoBoxChecked ==
    \/ \E f \in WidgetForms("responsible-options") : AddExpenseReject(f)
    \/ \E f \in WidgetForms("edit-responsible") : SaveEditReject(f)

\* C18: the row addExpense creates and the row saveEdit updates, in the
\* store and in the in-memory list, have a responsibility that is exactly
\* 'All' or a non-empty list of roster members without 'All'; a submission
\* with no box checked is rejected and changes neither the store nor the
\* in-memory list, and sends nothing.
C18_StoredResponsibility ==
    [][/\ \A i \in 1..MaxTasks :
             AddStored(i) =>
                 /\ ValidResponsibility(dbExpenses'[Len(dbExpenses')].responsible)
                 /\ ValidResponsibility(expenses'[Len(expenses')].responsible)
       /\ \A i \in 1..MaxTasks :
             EditStored(i) =>
                 /\ \A j \in 1..Len(dbExpenses') :
                       dbExpenses'[j].id = tasks[i].existing.id =>
                           ValidResponsibility(dbExpenses'[j].responsible)
                 /\ ValidResponsibility(expenses'[tasks[i].idx].responsible)
       /\ NoBoxChecked =>
             /\ dbExpenses' = dbExpenses
             /\ expenses' = expenses
             /\ tasks' = tasks
             /\ alert' = "Please select at least one responsible person"]_vars

C18_Witness ==
    /\ Len(dbExpenses) = 2
    /\ \A j \in 1..2 : "responsible" \in DOMAIN dbExpenses[j]
    /\ dbExpenses[1].responsible = <<"Asim", "Appy">>
    /\ dbExpenses[2].responsible = <<"Asim">>
    /\ expenses = dbExpenses
    /\ tasks = <<>>


----------------------------------------------------------------------------
(* C19 -- the total the plan moves *)

\* the amounts of all transactions of the plan, in cents
PlanTotal == SumSeq([i \in 1..Len(transactions) |-> transactions[i].amount])

\* inflows and outflows summed over the roster
TotalInflow == SumSeq([i \in 1..Len(members) |-> Inflow(members[i])])
TotalOutflow == SumSeq([i \in 1..Len(members) |-> Outflow(members[i])])

\* the exact nets of the members of a set, as amounts owed, in units
ExactOwed(S) ==
    SumSeq([i \in 1..Len(members) |->
              IF members[i] \in S THEN Abs(Net(summary, members[i])) ELSE 0])

\* C19 as claimed: the total of the plan equals the sum of the debtors'
\* nets and the sum of the creditors' owed amounts.  Stated for well-formed
\* lists, whose nets sum to zero, and up to the rounding of each amount to
\* the cent (at most one cent per member).
C19_TotalIsDebt ==
    (Settled /\ transactions # <<>>
             /\ \A i \in 1..Len(list) : WellFormed(list[i])) =>
        /\ Abs(PlanTotal - RoundedOwed(DebtorSet)) <= Len(members)
        /\ Abs(PlanTotal - RoundedOwed(CreditorSet)) <= Len(members)

\* C19 as amended: total outflow equals total inflow equals the total of the
\* plan; the plan is empty without a debtor or a creditor, and otherwise its
\* total is the debtors' nets plus the amounts owed to the creditors other
\* than the hub, each rounded to the cent: the hub's payouts pass on money
\* the debtors have paid in.  When the nets sum to zero the debtors' nets
\* and the creditors' owed amounts differ by the nets of the members within
\* 0.01, who are left out.
C19_PlanTotals ==
    Settled =>
        /\ TotalInflow = PlanTotal
        /\ TotalOutflow = PlanTotal
        /\ IF DebtorSet = {} \/ CreditorSet = {}
           THEN PlanTotal = 0
           ELSE LET hub == transactions[1].to
                IN  /\ hub \in CreditorSet
                    /\ PlanTotal = RoundedOwed(DebtorSet)
                                     + RoundedOwed(CreditorSet \ {hub})
        /\ SumNet = 0 =>
              Abs(ExactOwed(DebtorSet) - ExactOwed(CreditorSet)) <= SettledResidue

C19_Witness ==
    /\ Settled
    /\ SumNet = 0
    /\ SettledSet = {}
    /\ Cardinality(CreditorSet) = 2
    /\ ExactOwed(DebtorSet) = ExactOwed(CreditorSet)
    /\ PlanTotal > RoundedOwed(CreditorSet)

----------------------------------------------------------------------------
(* C20 -- the 0.01 threshold *)

\* members that appear in a transaction, as payer or payee
InPlan == {m \in Roster : \E k \in 1..Len(transactions) :
                             transactions[k].from = m \/ transactions[k].to = m}

Names(rs) == {rs[i].name : i \in 1..Len(rs)}

----------------------------------------------------------------------------
(* C21 -- the hub's payouts *)

\* what member m is owed, in units
Owed(m) == -Net(summary, m)

\* the transactions after the debtors' payments
Payouts ==
    SubSeq(transactions, Cardinality(DebtorSet) + 1, Len(transactions))

\* c comes before d in descending order of owed amount, roster order
\* deciding between equals
PaidBefore(c, d) ==
    \/ Owed(c) > Owed(d)
    \/ Owed(c) = Owed(d) /\ RosterIndex(c) < RosterIndex(d)

\* C21: after the debtors' payments the hub pays every other creditor
\* exactly once, the full amount owed (to the cent), in descending order of
\* the amount owed, creditors owed equal amounts in roster order; the hub is
\* the first in roster order of the creditors owed the largest amount; with
\* one creditor there is no payout.
C21_HubPayouts ==
    (Settled /\ transactions # <<>>) =>
        LET hub == transactions[1].to
        IN  /\ hub \in CreditorSet
            /\ \A c \in CreditorSet \ {hub} : PaidBefore(hub, c)
            /\ Len(Payouts) = Cardinality(CreditorSet) - 1
            /\ \A c \in CreditorSet \ {hub} :
                  Cardinality({k \in 1..Len(Payouts) : Payouts[k].to = c}) = 1
            /\ \A k \in 1..Len(Payouts) :
                  /\ Payouts[k].from = hub
                  /\ Payouts[k].to \in CreditorSet \ {hub}
                  /\ Payouts[k].amount = RoundCents(Owed(Payouts[k].to))
            /\ \A j, k \in 1..Len(Payouts) :
                  j < k => PaidBefore(Payouts[j].to, Payouts[k].to)
            /\ Cardinality(CreditorSet) = 1 => Payouts = <<>>

C21_Witness ==
    /\ Settled
    /\ Cardinality(CreditorSet) = 3
    /\ \E c, d \in CreditorSet :
          /\ c # d
          /\ Owed(c) = Owed(d)
          /\ Owed(transactions[1].to) > Owed(c)
          /\ Len(Payouts) = 2
          /\ Payouts[1].to = c
          /\ Payouts[2].to = d


----------------------------------------------------------------------------
(* C22 -- the responsible checkboxes *)

\* exactly 'All', or a non-empty set of members without 'All'
AllOrMembers(boxes) ==
    \/ boxes = {"All"}
    \/ boxes # {} /\ boxes \subseteq Roster

\* C22: the add form's boxes start as {All}; after any sequence of clicks
\* on its boxes the checked set is exactly {All} or a non-empty set of
\* members: 'All' is never checked together with a member, and whenever no
\* member is checked 'All' is.
C22_AllOrMembers == AllOrMembers(checked["responsible-options"])


----------------------------------------------------------------------------
(* C23 -- a commit is all or nothing *)

\* the step on which the confirmHandover awaiting as task i finishes
Finishes(i) ==
    /\ i \in DOMAIN tasks
    /\ tasks[i].op = "confirmHandover"
    /\ ConfirmInsertResume(i) \/ LoadArchivedResume(i)
    /\ tasks' = SeqRemove(tasks, i)

\* the store's rows of the expenses a commit selected
SelectedRows(t, rows) == SelectSeq(rows, LAMBDA r : Includes(t.expenseIds, r.id))

\* C23: when confirmHandover has finished, either its period record exists
\* and every expense selected for it carries the record's id, or no period
\* record was created and no selected expense was stamped.
C23_AllOrNothing ==
    [][\A i \in 1..MaxTasks :
          Finishes(i) =>
              LET t   == tasks[i]
                  sel == SelectedRows(t, dbExpenses')
              IN  IF t.newHandover # NullId
                  THEN /\ \E j \in 1..Len(dbHandovers') :
                             dbHandovers'[j].id = t.newHandover
                       /\ \A j \in 1..Len(sel) : sel[j].handover_id = t.newHandover
                  ELSE /\ dbHandovers' = dbHandovers
                       /\ dbExpenses' = dbExpenses]_vars


----------------------------------------------------------------------------
(* C24 -- a read of loadData is rejected *)

\* a step of loadData's first, second or third read as the reload step of
\* confirmHandover.  (As the page loads, the three structures are the empty
\* ones the script starts with, and a rejected read leaves them empty.)
ReloadsExpenses == \E i \in 1..MaxTasks : LoadExpensesResume(i)
ReloadsHandovers == \E i \in 1..MaxTasks : LoadHandoversResume(i)
ReloadsArchived == \E i \in 1..MaxTasks : LoadArchivedResume(i)

\* the groups the third read gives when the store answers
ArchivedAnswers == {GroupByHandover(rows) : rows \in ArchivedQuery}

\* C24: a read of loadData that the store rejects (what the read leaves is
\* no answer of the store) changes nothing locally: expenses, handovers and
\* archivedExpensesByHandover keep the values they had before the call, also
\* when loadData is the reload step of confirmHandover.
C24_RejectedRead ==
    [][/\ (ReloadsExpenses /\ expenses' \notin ActiveQuery) => expenses' = expenses
       /\ (ReloadsHandovers /\ handovers' \notin HandoversQuery) =>
              handovers' = handovers
       /\ (ReloadsArchived /\ archivedExpensesByHandover' \notin ArchivedAnswers) =>
              archivedExpensesByHandover' = archivedExpensesByHandover]_vars


----------------------------------------------------------------------------
(* C25 -- confirmHandover of the localStorage variant *)

\* C25: confirmHandover of script.js appends exactly one handover record
\* whose expenses are a copy of every expense that was active, leaves the
\* active list empty and the earlier records unchanged, and every expense
\* archived in the record has a date within the record's start..end range.
C25_MovedToHistory ==
    [][LocalConfirmHandover =>
          /\ Len(handovers') = Len(handovers) + 1
          /\ SubSeq(handovers', 1, Len(handovers)) = handovers
          /\ handovers'[Len(handovers')].expenses = expenses
          /\ expenses' = <<>>
          /\ LET rec == handovers'[Len(handovers')]
             IN  \A k \in 1..Len(rec.expenses) :
                    rec.start <= rec.expenses[k].date
                        /\ rec.expenses[k].date <= rec.end]_vars


----------------------------------------------------------------------------
(* C26 -- the record's summary and the expenses it archives *)

\* the store's rows that carry the period id hid
StampedWith(rows, hid) == SelectSeq(rows, LAMBDA r : r.handover_id = hid)

\* every update of the commit was applied: a selected expense the store
\* holds carries the period's id
AllStamped(t, rows) ==
    \A j \in 1..Len(rows) :
        Includes(t.expenseIds, rows[j].id) => rows[j].handover_id = t.newHandover

\* C26: the summary and the transactions stored in a period record equal
\* computeSummaryFromList and computeSettlement applied to exactly the
\* expenses stamped with the period's id, whatever deleteExpense and page
\* navigation did between generateHandover and confirmHandover, deletes
\* still awaiting the store included.  Stated at the completion of a commit
\* all of whose updates the store applied.
C26_SummaryOfStamped ==
    [][\A i \in 1..MaxTasks :
          (Completes(i) /\ AllStamped(tasks[i], dbExpenses')) =>
              LET t   == tasks[i]
                  sum == computeSummaryFromList(StampedWith(dbExpenses', t.newHandover))
              IN  \A j \in 1..Len(dbHandovers') :
                     dbHandovers'[j].id = t.newHandover =>
                         /\ dbHandovers'[j].summary = sum
                         /\ dbHandovers'[j].transactions = computeSettlement(sum)]_vars


----------------------------------------------------------------------------
(* C27 -- the in-memory list and the store's active expenses *)

\* the store's expenses without a period
ActiveRows == SelectSeq(dbExpenses, LAMBDA r : r.handover_id = NullId)

\* C27: whenever no handler is awaiting the store, the in-memory list holds
\* exactly the store's expenses with a null handover_id, each once and with
\* the same field values; in particular a deleteExpense that resumes after
\* another delete has completed removes the expense it deleted remotely.
C27_ListMirrorsStore ==
    tasks = <<>> =>
        /\ Len(expenses) = Len(ActiveRows)
        /\ Range(expenses) = Range(ActiveRows)


----------------------------------------------------------------------------
(* C28 -- every active expense can be handed over *)

\* the candidate end dates for which generateHandover selects the k-th
\* expense of the in-memory list
EndDatesFor(k) ==
    {date \in Dates :
        Includes(Ids(selectedExpenses(expenses, handovers, date)), expenses[k].id)}

\* C28: in every reachable state, for every active expense there is a
\* candidate end date for which generateHandover includes it in its
\* selection, so no expense stays active forever.
C28_CanBeHandedOver ==
    \A k \in 1..Len(expenses) : EndDatesFor(k) # {}


----------------------------------------------------------------------------
(* C29 -- archived expenses are dated within their period *)

\* the rows a step of confirmHandover stamps with the id of its period
NewlyStamped(i) ==
    {j \in 1..Len(dbExpenses) :
        /\ dbExpenses'[j].handover_id = tasks[i].newHandover
        /\ dbExpenses[j].handover_id # tasks[i].newHandover}

\* the period is the first the store ever recorded
FirstPeriodEver(hid) == \A j \in 1..Len(dbHandovers) : dbHandovers[j].id >= hid

\* C29: every expense confirmHandover archives into a period is dated
\* inside the period's range: start < date <= end, or start <= date <= end
\* for the first period ever.
C29_ArchivedInRange ==
    [][\A i \in 1..MaxTasks :
          ConfirmUpdateResume(i) =>
              \A j \in NewlyStamped(i) :
                  LET t == tasks[i]
                      d == dbExpenses[j].date
                  IN  /\ IF FirstPeriodEver(t.newHandover)
                         THEN t.start <= d ELSE t.start < d
                      /\ d <= t.end]_vars


----------------------------------------------------------------------------
(* C30 -- period records are contiguous and ordered *)

\* C30: every period record has start <= end, and each record created after
\* the first starts on the end date of the record created before it and ends
\* strictly later than it starts, so that the end dates strictly increase in
\* creation order.  (The store keeps the records in creation order.)
C30_Contiguous ==
    /\ \A j \in 1..Len(dbHandovers) :
          dbHandovers[j].start_date <= dbHandovers[j].end_date
    /\ \A j \in 2..Len(dbHandovers) :
          /\ dbHandovers[j].start_date = dbHandovers[j - 1].end_date
          /\ dbHandovers[j].start_date < dbHandovers[j].end_date


=============================================================================
